---- MODULE Spec2Model ----
(***************************************************************************)
(* Model of tt_int: arithmetic expression trees over random variables and  *)
(* the Monte Carlo evaluator that samples them (src/src/*.cpp).            *)
(*                                                                         *)
(* A C++ double is modelled as NaN or an exact rational n/d (d > 0, in     *)
(* lowest terms); rt = 2 marks the square root of n/d, which only          *)
(* std::sqrt produces and which never re-enters arithmetic.  Rounding,     *)
(* overflow and signed zero are outside the model.                         *)
(***************************************************************************)
EXTENDS Integers, Sequences, FiniteSets, TLC

----------------------------------------------------------------------------
(* Bounds of the model *)

\* largest trial count an evaluator is constructed with in Spec
MaxN == 4
\* largest trial count in SpecRepeat
MaxRepeatN == 2
\* largest trial count in SpecPlan (checkpoint planning, no random input)
MaxPlanN == 26
\* largest fixed stride passed as convergenceInterval
MaxStride == 3
\* number of distinct seeds
NumSeeds == 2
\* number of distinct outputs of one generator draw
RngMod == 3
\* evaluate calls made in one run of SpecRepeat
MaxCalls == 2
\* registerVariable calls made in one run of SpecRegistry
MaxRegister == 3
\* direct sampleAll calls made in one run of SpecRegistry
MaxSampleAll == 2
\* direct Distribution::sample calls made in one run of SpecDist
MaxDraws == 3

----------------------------------------------------------------------------
(* double arithmetic *)

Abs(x) == IF x < 0 THEN -x ELSE x

RECURSIVE GCD(_, _)
GCD(a, b) == IF b = 0 THEN a ELSE GCD(b, a % b)

\* std::numeric_limits<double>::quiet_NaN()
NaN == [nan |-> TRUE, n |-> 0, d |-> 1, rt |-> 1]

\* the double n/d, d # 0
Rat(n, d) ==
    LET g == GCD(Abs(n), Abs(d))
        s == IF d < 0 THEN -1 ELSE 1
    IN  [nan |-> FALSE, n |-> (s * n) \div g, d |-> (s * d) \div g, rt |-> 1]

Dbl(k) == Rat(k, 1)

\* std::isnan
IsNaN(v) == v.nan

FAdd(a, b) == IF a.nan \/ b.nan THEN NaN ELSE Rat(a.n * b.d + b.n * a.d, a.d * b.d)
FSub(a, b) == IF a.nan \/ b.nan THEN NaN ELSE Rat(a.n * b.d - b.n * a.d, a.d * b.d)
FMul(a, b) == IF a.nan \/ b.nan THEN NaN ELSE Rat(a.n * b.n, a.d * b.d)
\* operator/ on doubles; 0/0 is NaN, x/0 for x # 0 is an infinity (not modelled,
\* the program never divides by zero: expression.cpp:49 and validCount >= 1)
FDiv(a, b) == IF a.nan \/ b.nan \/ b.n = 0 THEN NaN ELSE Rat(a.n * b.d, a.d * b.n)

FLess(a, b) == ~a.nan /\ ~b.nan /\ a.n * b.d < b.n * a.d

RECURSIVE ISqrt(_, _)
\* largest r >= k with r*r <= m is searched upwards from k
ISqrt(m, k) == IF (k + 1) * (k + 1) > m THEN k ELSE ISqrt(m, k + 1)

IsSquare(m) == ISqrt(m, 0) * ISqrt(m, 0) = m

\* std::sqrt: exact when n/d is the square of a rational, symbolic otherwise
FSqrt(a) ==
    IF a.nan \/ a.n < 0 THEN NaN
    ELSE IF IsSquare(a.n) /\ IsSquare(a.d)
         THEN [nan |-> FALSE, n |-> ISqrt(a.n, 0), d |-> ISqrt(a.d, 0), rt |-> 1]
         ELSE [nan |-> FALSE, n |-> a.n, d |-> a.d, rt |-> 2]

----------------------------------------------------------------------------
(* Expression trees (include/expression.h, src/expression.cpp) *)

\* names a Variable node may carry; "x" and "y" can be registered, "z" never is
Names == {"x", "y"}
\* std::map iterates its keys in ascending order
NameOrder == <<"x", "y">>

Constant(v) == [type |-> "Constant", value |-> v, name |-> "", left |-> 0, right |-> 0, op |-> ""]
Variable(nm) == [type |-> "Variable", value |-> 0, name |-> nm, left |-> 0, right |-> 0, op |-> ""]
BinaryOp(l, r, o) == [type |-> "BinaryOp", value |-> 0, name |-> "", left |-> l, right |-> r, op |-> o]

\* the nodes built by the caller; left/right are shared_ptr handles (indices)
Nodes == <<
    Constant(0),                 \* 1
    Constant(2),                 \* 2
    Variable("x"),               \* 3
    Variable("y"),               \* 4
    Variable("z"),               \* 5
    BinaryOp(3, 1, "Divide"),    \* 6: x / 0
    BinaryOp(3, 4, "Divide"),    \* 7: x / y
    BinaryOp(3, 4, "Add"),       \* 8: x + y
    BinaryOp(7, 2, "Multiply"),  \* 9: (x / y) * 2
    BinaryOp(2, 3, "Subtract"),  \* 10: 2 - x
    BinaryOp(6, 2, "Add"),       \* 11: (x / 0) + 2
    BinaryOp(2, 7, "Subtract"),  \* 12: 2 - (x / y)
    BinaryOp(2, 6, "Divide"),    \* 13: 2 / (x / 0)
    BinaryOp(7, 1, "Multiply"),  \* 14: (x / y) * 0
    BinaryOp(6, 5, "Add"),       \* 15: (x / 0) + z
    Variable("x"),               \* 16: a second Variable object named x
    Variable("y"),               \* 17: a second Variable object named y
    Constant(2),                 \* 18: a second Constant object 2
    BinaryOp(3, 3, "Add"),       \* 19: x + x, one object in both positions
    BinaryOp(3, 16, "Add"),      \* 20: x + x, two objects
    BinaryOp(3, 3, "Divide"),    \* 21: x / x, one object in both positions
    BinaryOp(3, 16, "Divide"),   \* 22: x / x, two objects
    BinaryOp(16, 17, "Divide"),  \* 23: x / y built a second time
    BinaryOp(23, 18, "Multiply"), \* 24: (x / y) * 2 built a second time
    BinaryOp(7, 7, "Subtract"),  \* 25: (x / y) - (x / y), one subtree twice
    BinaryOp(7, 23, "Subtract"), \* 26: (x / y) - (x / y), two subtrees
    BinaryOp(5, 1, "Divide")     \* 27: z / 0
>>

\* a returned double, or a thrown std::out_of_range
Ret(v) == [throw |-> FALSE, val |-> v]
Throw == [throw |-> TRUE, val |-> NaN]

\* ApplyOp that hands its operands to the operator as (right, left)
ApplyOp_Swapped(op, leftValue, rightValue) ==
    CASE op = "Add" -> FAdd(rightValue, leftValue)
      [] op = "Subtract" -> FSub(rightValue, leftValue)
      [] op = "Multiply" -> FMul(rightValue, leftValue)
      [] op = "Divide" -> IF ~rightValue.nan /\ rightValue.n = 0
                          THEN NaN
                          ELSE FDiv(rightValue, leftValue)

\* ApplyOp whose Multiply returns 0 as soon as one factor is 0
ApplyOp_ZeroAbsorbs(op, leftValue, rightValue) ==
    CASE op = "Add" -> FAdd(leftValue, rightValue)
      [] op = "Subtract" -> FSub(leftValue, rightValue)
      [] op = "Multiply" -> IF (~leftValue.nan /\ leftValue.n = 0)
                               \/ (~rightValue.nan /\ rightValue.n = 0)
                            THEN Dbl(0)
                            ELSE FMul(leftValue, rightValue)
      [] op = "Divide" -> IF ~rightValue.nan /\ rightValue.n = 0
                          THEN NaN
                          ELSE FDiv(leftValue, rightValue)

\* ApplyOp whose Divide guard is rightValue <= 0.0 instead of rightValue == 0.0
ApplyOp_NonPositive(op, leftValue, rightValue) ==
    CASE op = "Add" -> FAdd(leftValue, rightValue)
      [] op = "Subtract" -> FSub(leftValue, rightValue)
      [] op = "Multiply" -> FMul(leftValue, rightValue)
      [] op = "Divide" -> IF ~rightValue.nan /\ rightValue.n <= 0
                          THEN NaN
                          ELSE FDiv(leftValue, rightValue)

\* ApplyOp with a division by zero that yields 0 instead of NaN
ApplyOp_ZeroQuotient(op, leftValue, rightValue) ==
    CASE op = "Add" -> FAdd(leftValue, rightValue)
      [] op = "Subtract" -> FSub(leftValue, rightValue)
      [] op = "Multiply" -> FMul(leftValue, rightValue)
      [] op = "Divide" -> IF ~rightValue.nan /\ rightValue.n = 0
                          THEN Dbl(0)
                          ELSE FDiv(leftValue, rightValue)

\* BinaryOp::evaluate's switch on op_
ApplyOp(op, leftValue, rightValue) ==
    CASE op = "Add" -> FAdd(leftValue, rightValue)
      [] op = "Subtract" -> FSub(leftValue, rightValue)
      [] op = "Multiply" -> FMul(leftValue, rightValue)
      [] op = "Divide" -> IF ~rightValue.nan /\ rightValue.n = 0
                          THEN NaN
                          ELSE FDiv(leftValue, rightValue)

\* VariableEvaluate that returns NaN for an absent name instead of throwing
VariableEvaluate_QuietNaN(name_, variables) ==
    IF name_ \notin DOMAIN variables THEN Ret(NaN) ELSE Ret(variables[name_])

\* VariableEvaluate that substitutes 0 for an absent name, as map::operator[] would
VariableEvaluate_Default(name_, variables) ==
    IF name_ \notin DOMAIN variables THEN Ret(Dbl(0)) ELSE Ret(variables[name_])

\* Variable::evaluate
VariableEvaluate(name_, variables) ==
    IF name_ \notin DOMAIN variables THEN Throw ELSE Ret(variables[name_])

RECURSIVE Evaluate(_, _)
\* Evaluate that takes a Divide or Subtract of one object by itself for 1 or 0
\* without evaluating it
Evaluate_SameObject(e, variables) ==
    LET node == Nodes[e] IN
    CASE node.type = "Constant" -> Ret(Dbl(node.value))
      [] node.type = "Variable" -> VariableEvaluate(node.name, variables)
      [] node.type = "BinaryOp" ->
            IF node.left = node.right /\ node.op = "Divide" THEN Ret(Dbl(1))
            ELSE IF node.left = node.right /\ node.op = "Subtract" THEN Ret(Dbl(0))
            ELSE LET l == Evaluate(node.left, variables) IN
                 IF l.throw THEN Throw
                 ELSE LET r == Evaluate(node.right, variables) IN
                      IF r.throw THEN Throw
                      ELSE Ret(ApplyOp(node.op, l.val, r.val))

\* Expression::evaluate, dispatched on the node's dynamic type
Evaluate(e, variables) ==
    LET node == Nodes[e] IN
    CASE node.type = "Constant" -> Ret(Dbl(node.value))
      [] node.type = "Variable" -> VariableEvaluate(node.name, variables)
      [] node.type = "BinaryOp" ->
            LET l == Evaluate(node.left, variables) IN
            IF l.throw THEN Throw
            ELSE LET r == Evaluate(node.right, variables) IN
                 IF r.throw THEN Throw
                 ELSE Ret(ApplyOp(node.op, l.val, r.val))

----------------------------------------------------------------------------
(* Generator and distributions (include/distribution.h, src/distribution.cpp) *)

Seeds == 0 .. NumSeeds - 1

\* std::mt19937 as a position in the output stream its seed fixes
RngSeed(s) == [seed |-> s, pos |-> 0]
\* the output word the generator is about to produce
RngOut(rng) == ((rng.seed + 2) * (rng.pos + 1) + rng.pos \div 2) % RngMod
RngAdvance(rng, k) == [rng EXCEPT !.pos = @ + k]

\* the distribution objects the caller made with make_shared
Dists == <<
    [kind |-> "Normal", a |-> 0, b |-> 1],     \* NormalDistribution(0, 1)
    [kind |-> "Uniform", a |-> 0, b |-> 3]     \* UniformDistribution(0, 3)
>>
DistIds == 1 .. Len(Dists)

\* state of the mutable member dist_ right after construction
FreshDist == [saved_available |-> FALSE, saved |-> Dbl(0)]

\* a standard normal variate made from one generator word
Variate(u) == Dbl(u - 1)

\* NormalDistribution::sample: std::normal_distribution makes variates in
\* pairs, returns one and keeps the other in dist_ for the next call
NormalSample(d, rng, st) ==
    LET scale(z) == FAdd(FMul(z, Dbl(Dists[d].b)), Dbl(Dists[d].a)) IN
    IF st.saved_available
    THEN [val |-> scale(st.saved), rng |-> rng, st |-> FreshDist]
    ELSE [val |-> scale(Variate(RngOut(RngAdvance(rng, 1)))),
          rng |-> RngAdvance(rng, 2),
          st |-> [saved_available |-> TRUE, saved |-> Variate(RngOut(rng))]]

\* UniformDistribution::sample: min + (max - min) * canonical, canonical in [0, 1)
UniformSample(d, rng, st) ==
    [val |-> FAdd(Dbl(Dists[d].a),
                  FMul(Dbl(Dists[d].b - Dists[d].a), Rat(RngOut(rng), RngMod))),
     rng |-> RngAdvance(rng, 1),
     st |-> st]

\* Distribution::sample, virtual dispatch
Sample(d, rng, st) ==
    IF Dists[d].kind = "Normal" THEN NormalSample(d, rng, st) ELSE UniformSample(d, rng, st)

----------------------------------------------------------------------------
(* VariableRegistry (src/variable_registry.cpp) *)

RECURSIVE SampleFrom(_, _, _, _, _)
\* the loop of sampleAll from the k-th name on; acc is the snapshot so far
SampleFrom(k, reg, rng, ds, acc) ==
    IF k > Len(NameOrder) THEN [samples |-> acc, rng |-> rng, dist |-> ds]
    ELSE LET nm == NameOrder[k] IN
         IF nm \notin DOMAIN reg THEN SampleFrom(k + 1, reg, rng, ds, acc)
         ELSE LET s == Sample(reg[nm], rng, ds[reg[nm]]) IN
              SampleFrom(k + 1, reg, s.rng, [ds EXCEPT ![reg[nm]] = s.st],
                         [x \in (DOMAIN acc) \cup {nm} |-> IF x = nm THEN s.val ELSE acc[x]])

EmptyMap == [x \in {} |-> 0]

\* VariableRegistry::sampleAll
SampleAll(reg, rng, ds) == SampleFrom(1, reg, rng, ds, EmptyMap)

----------------------------------------------------------------------------
(* MonteCarloEvaluator (include/monte_carlo_evaluator.h, src/monte_carlo_evaluator.cpp) *)

Evals == {1, 2}

VARIABLES
    variables_,   \* VariableRegistry::variables_: name -> distribution object
    dist_,        \* the mutable member dist_ of every distribution object
    numSamples_,  \* MonteCarloEvaluator::numSamples_, per evaluator
    rng_,         \* MonteCarloEvaluator::rng_, per evaluator
    pc,           \* where each evaluator is: "none" (not constructed), "idle",
                  \* "loop" (inside evaluate), "done" (returned), "thrown"
    frame,        \* the locals of the running or last evaluate call, per evaluator
    history,      \* the last two evaluate calls that returned, older first
    calls,        \* number of evaluate calls begun
    evalIn,       \* a direct Expression::evaluate call: the node and the map passed
    evalOut,      \* what that call returned or threw; "none" before it
    regLog,       \* the registerVariable calls made so far, oldest first
    gen,          \* a std::mt19937 the caller owns and passes to sampleAll / sample
    snapshots,    \* the direct sampleAll calls that returned, oldest first
    draws,        \* the direct Distribution::sample calls that returned, oldest first
    threads       \* the threads that call Expression::evaluate on a shared tree

vars == <<variables_, dist_, numSamples_, rng_, pc, frame, history, calls, evalIn, evalOut,
          regLog, gen, snapshots, draws, threads>>

\* what belongs to callers of the registry, the distributions and the tree
callerVars == <<gen, snapshots, draws, threads>>

Threads == {1, 2}

\* a thread that has not called evaluate
NoThread ==
    [expr |-> 0, variables |-> EmptyMap, passed |-> EmptyMap, stack |-> <<>>,
     returned |-> FALSE, value |-> NaN, state |-> "none"]

RECURSIVE SetToSeq(_)
\* std::vector<size_t>(intervals.begin(), intervals.end()): a std::set in ascending order
SetToSeq(S) ==
    IF S = {} THEN <<>>
    ELSE LET m == CHOOSE x \in S : \A y \in S : x <= y
         IN  <<m>> \o SetToSeq(S \ {m})

RECURSIVE PowersBelow(_, _)
\* for (power = 10; power < totalSamples; power *= 10) intervals.insert(power)
PowersBelow(power, totalSamples) ==
    IF power < totalSamples THEN {power} \cup PowersBelow(power * 10, totalSamples) ELSE {}

\* the percentages 0.01 .. 1.00, in hundredths
Percentages == <<1, 5, 10, 25, 50, 75, 90, 95, 100>>

\* PctCount that rounds to the nearest count instead of truncating
PctCount_Rounded(pct, totalSamples) == (pct * totalSamples + 50) \div 100

\* static_cast<size_t>(pct * totalSamples); the double product truncates to the
\* exact floor for every totalSamples below 2^45
PctCount(pct, totalSamples) == (pct * totalSamples) \div 100

\* computeSmartIntervals that collects the points in a container without an
\* order: the powers of ten come first, the percentage counts after them
computeSmartIntervals_Unordered(totalSamples) ==
    LET logs == PowersBelow(10, totalSamples)
        pcts == {PctCount(Percentages[j], totalSamples) : j \in 1 .. Len(Percentages)}
        kept == {count \in pcts : count > 0 /\ count <= totalSamples}
    IN  SetToSeq(logs) \o SetToSeq((kept \cup {totalSamples}) \ logs)

\* MonteCarloEvaluator::computeSmartIntervals
computeSmartIntervals(totalSamples) ==
    LET logs == PowersBelow(10, totalSamples)
        pcts == {PctCount(Percentages[j], totalSamples) : j \in 1 .. Len(Percentages)}
        kept == {count \in pcts : count > 0 /\ count <= totalSamples}
    IN  SetToSeq(logs \cup kept \cup {totalSamples})

\* FixedPoints whose loop starts at 0 instead of interval
FixedPoints_FromZero(interval, numSamples) ==
    [j \in 1 .. (numSamples \div interval) + 1 |-> (j - 1) * interval]

\* for (i = interval; i <= numSamples_; i += interval) recordPoints.push_back(i):
\* the multiples of interval up to numSamples_, in order
FixedPoints(interval, numSamples) ==
    [j \in 1 .. (numSamples \div interval) |-> j * interval]

\* RecordPoints that treats convergenceInterval == 0 as smart mode
RecordPoints_ZeroIsSmart(convergenceInterval, numSamples) ==
    IF convergenceInterval > 0
    THEN LET pts == FixedPoints(convergenceInterval, numSamples) IN
         IF pts = <<>> \/ pts[Len(pts)] # numSamples THEN Append(pts, numSamples) ELSE pts
    ELSE computeSmartIntervals(numSamples)

\* evaluate, "Determine which sample counts to record"
RecordPoints(convergenceInterval, numSamples) ==
    IF convergenceInterval > 0
    THEN LET pts == FixedPoints(convergenceInterval, numSamples) IN
         IF pts = <<>> \/ pts[Len(pts)] # numSamples THEN Append(pts, numSamples) ELSE pts
    ELSE IF convergenceInterval < 0 THEN computeSmartIntervals(numSamples)
    ELSE <<>>

\* a SimulationResult whose statistics are not assigned yet (NaN and 0 stand
\* for the unassigned members, which the code never reads)
NewResult(total) ==
    [samples |-> <<>>, mean |-> NaN, stddev |-> NaN, min |-> NaN, max |-> NaN,
     validSampleCount |-> 0, totalSampleCount |-> total, convergenceHistory |-> <<>>]

NoFrame ==
    [expr |-> 0, convergenceInterval |-> 0, recordPoints |-> <<>>,
     runningMean |-> Dbl(0), runningM2 |-> Dbl(0), validCount |-> 0,
     nextRecordIndex |-> 0, i |-> 0, result |-> NewResult(0),
     callNo |-> 0, first |-> FALSE,
     startRng |-> RngSeed(0), startDist |-> [d \in DistIds |-> FreshDist]]

\* Welford that divides delta by the number of trials so far, not by validCount
Welford_PerTrial(f, value) ==
    IF IsNaN(value) THEN f
    ELSE LET validCount == f.validCount + 1
             delta == FSub(value, f.runningMean)
             runningMean == FAdd(f.runningMean, FDiv(delta, Dbl(f.i + 1)))
             delta2 == FSub(value, runningMean)
         IN  [f EXCEPT !.validCount = validCount,
                       !.runningMean = runningMean,
                       !.runningM2 = FAdd(f.runningM2, FMul(delta, delta2))]

\* Welford that accumulates delta * delta instead of delta * delta2
Welford_DeltaSquared(f, value) ==
    IF IsNaN(value) THEN f
    ELSE LET validCount == f.validCount + 1
             delta == FSub(value, f.runningMean)
             runningMean == FAdd(f.runningMean, FDiv(delta, Dbl(validCount)))
         IN  [f EXCEPT !.validCount = validCount,
                       !.runningMean = runningMean,
                       !.runningM2 = FAdd(f.runningM2, FMul(delta, delta))]

\* the running statistics after value is folded in (Welford's update)
Welford(f, value) ==
    IF IsNaN(value) THEN f
    ELSE LET validCount == f.validCount + 1
             delta == FSub(value, f.runningMean)
             runningMean == FAdd(f.runningMean, FDiv(delta, Dbl(validCount)))
             delta2 == FSub(value, runningMean)
         IN  [f EXCEPT !.validCount = validCount,
                       !.runningMean = runningMean,
                       !.runningM2 = FAdd(f.runningM2, FMul(delta, delta2))]

\* StdDev without the validCount > 1 guard
StdDev_NoGuard(f) ==
    FSqrt(FDiv(f.runningM2, Dbl(f.validCount - 1)))

\* sqrt(runningM2 / (validCount - 1)) or 0.0
StdDev(f) ==
    IF f.validCount > 1 THEN FSqrt(FDiv(f.runningM2, Dbl(f.validCount - 1))) ELSE Dbl(0)

\* Point with the biased deviation sqrt(runningM2 / validCount)
Point_Biased(f, currentSampleCount) ==
    [sampleCount |-> currentSampleCount,
     validCount |-> f.validCount,
     mean |-> IF f.validCount > 0 THEN f.runningMean ELSE NaN,
     stddev |-> IF f.validCount > 0
                THEN (IF f.validCount > 1
                      THEN FSqrt(FDiv(f.runningM2, Dbl(f.validCount)))
                      ELSE Dbl(0))
                ELSE NaN]

\* the ConvergencePoint recorded after currentSampleCount trials
Point(f, currentSampleCount) ==
    [sampleCount |-> currentSampleCount,
     validCount |-> f.validCount,
     mean |-> IF f.validCount > 0 THEN f.runningMean ELSE NaN,
     stddev |-> IF f.validCount > 0 THEN StdDev(f) ELSE NaN]

\* Record that starts the squared-deviation sum afresh after each point
Record_ResetsM2(f, currentSampleCount) ==
    IF f.nextRecordIndex < Len(f.recordPoints)
       /\ currentSampleCount = f.recordPoints[f.nextRecordIndex + 1]
    THEN [f EXCEPT !.result.convergenceHistory = Append(@, Point(f, currentSampleCount)),
                   !.nextRecordIndex = @ + 1,
                   !.runningM2 = Dbl(0)]
    ELSE f

\* Record that stores the loop index i in sampleCount instead of i + 1
Record_ZeroBased(f, currentSampleCount) ==
    IF f.nextRecordIndex < Len(f.recordPoints)
       /\ currentSampleCount = f.recordPoints[f.nextRecordIndex + 1]
    THEN [f EXCEPT !.result.convergenceHistory = Append(@, Point(f, currentSampleCount - 1)),
                   !.nextRecordIndex = @ + 1]
    ELSE f

\* "Check if we should record at this point"
Record(f, currentSampleCount) ==
    IF f.nextRecordIndex < Len(f.recordPoints)
       /\ currentSampleCount = f.recordPoints[f.nextRecordIndex + 1]
    THEN [f EXCEPT !.result.convergenceHistory = Append(@, Point(f, currentSampleCount)),
                   !.nextRecordIndex = @ + 1]
    ELSE f

\* the samples that are not NaN, in order
ValidSamples(samples) == SelectSeq(samples, LAMBDA v : ~IsNaN(v))

\* MinElement that returns the front of the vector
MinElement_Front(vs) == vs[1]

\* *std::minmax_element(...).first / .second over a non-empty vector
MinElement(vs) == CHOOSE v \in {vs[k] : k \in 1 .. Len(vs)} : \A k \in 1 .. Len(vs) : ~FLess(vs[k], v)
MaxElement(vs) == CHOOSE v \in {vs[k] : k \in 1 .. Len(vs)} : \A k \in 1 .. Len(vs) : ~FLess(v, vs[k])

\* FinalResult whose mean is summed over all of samples: NaN as soon as one
\* sample is NaN
FinalResult_MeanOfAll(f) ==
    IF f.validCount = 0
    THEN [f.result EXCEPT !.validSampleCount = f.validCount,
                          !.mean = NaN, !.stddev = NaN, !.min = NaN, !.max = NaN]
    ELSE [f.result EXCEPT !.validSampleCount = f.validCount,
                          !.mean = IF \E k \in 1 .. Len(f.result.samples) :
                                          IsNaN(f.result.samples[k])
                                   THEN NaN ELSE f.runningMean,
                          !.stddev = StdDev(f),
                          !.min = MinElement(ValidSamples(f.result.samples)),
                          !.max = MaxElement(ValidSamples(f.result.samples))]

\* evaluate, "Compute final statistics"
FinalResult(f) ==
    IF f.validCount = 0
    THEN [f.result EXCEPT !.validSampleCount = f.validCount,
                          !.mean = NaN, !.stddev = NaN, !.min = NaN, !.max = NaN]
    ELSE [f.result EXCEPT !.validSampleCount = f.validCount,
                          !.mean = f.runningMean,
                          !.stddev = StdDev(f),
                          !.min = MinElement(ValidSamples(f.result.samples)),
                          !.max = MaxElement(ValidSamples(f.result.samples))]

----------------------------------------------------------------------------
(* The operations *)

\* the expressions handed to MonteCarloEvaluator::evaluate
Roots == {2, 3, 5, 6, 7, 9, 10, 11, 12, 13, 14, 15, 27}

\* convergenceInterval arguments: none, fixed strides, smart (any negative)
Intervals == (-2 .. MaxStride)

NoCall == [expr |-> 0, variables |-> EmptyMap]
NoOut == [throw |-> FALSE, val |-> NaN, done |-> FALSE]

evalVars == <<numSamples_, rng_, pc, frame, history, calls>>

Init ==
    /\ variables_ = EmptyMap
    /\ dist_ = [d \in DistIds |-> FreshDist]
    /\ numSamples_ = [e \in Evals |-> 0]
    /\ rng_ = [e \in Evals |-> RngSeed(0)]
    /\ pc = [e \in Evals |-> "none"]
    /\ frame = [e \in Evals |-> NoFrame]
    /\ history = <<>>
    /\ calls = 0
    /\ evalIn = NoCall
    /\ evalOut = NoOut
    /\ regLog = <<>>
    /\ gen = RngSeed(0)
    /\ snapshots = <<>>
    /\ draws = <<>>
    /\ threads = [t \in Threads |-> NoThread]

\* VariableRegistry::hasVariable
hasVariable(name) == name \in DOMAIN variables_

\* VariableRegistry::getVariableCount
getVariableCount == Cardinality(DOMAIN variables_)

\* registerVariable through std::map::insert, which keeps an existing entry
RegisterVariable_InsertOnly(name, d) ==
    /\ variables_' = [x \in (DOMAIN variables_) \cup {name} |->
                        IF x \in DOMAIN variables_ THEN variables_[x] ELSE d]
    /\ regLog' = Append(regLog, [name |-> name, dist |-> d])
    /\ UNCHANGED <<dist_, evalVars, evalIn, evalOut, callerVars>>

\* VariableRegistry::registerVariable
RegisterVariable(name, d) ==
    /\ variables_' = [x \in (DOMAIN variables_) \cup {name} |->
                        IF x = name THEN d ELSE variables_[x]]
    /\ regLog' = Append(regLog, [name |-> name, dist |-> d])
    /\ UNCHANGED <<dist_, evalVars, evalIn, evalOut, callerVars>>

\* MonteCarloEvaluator::MonteCarloEvaluator; rd is what std::random_device returns
Construct(e, numSamples, seed, rd) ==
    /\ pc[e] = "none"
    /\ numSamples_' = [numSamples_ EXCEPT ![e] = numSamples]
    /\ rng_' = [rng_ EXCEPT ![e] = RngSeed(IF seed = -1 THEN rd ELSE seed)]
    /\ pc' = [pc EXCEPT ![e] = "idle"]
    /\ UNCHANGED <<variables_, dist_, frame, history, calls, evalIn, evalOut, regLog, callerVars>>

\* the locals of evaluate when its loop is reached
EnterFrame(e, expr, convergenceInterval) ==
    [expr |-> expr, convergenceInterval |-> convergenceInterval,
     recordPoints |-> RecordPoints(convergenceInterval, numSamples_[e]),
     runningMean |-> Dbl(0), runningM2 |-> Dbl(0), validCount |-> 0,
     nextRecordIndex |-> 0, i |-> 0, result |-> NewResult(numSamples_[e]),
     callNo |-> calls + 1, first |-> (pc[e] = "idle"),
     startRng |-> rng_[e], startDist |-> dist_]

\* evaluate up to its sampling loop
EvaluateBegin(e, expr, convergenceInterval) ==
    /\ pc[e] \in {"idle", "done", "thrown"}
    /\ frame' = [frame EXCEPT ![e] = EnterFrame(e, expr, convergenceInterval)]
    /\ pc' = [pc EXCEPT ![e] = "loop"]
    /\ calls' = calls + 1
    /\ UNCHANGED <<variables_, dist_, numSamples_, rng_, history, evalIn, evalOut, regLog, callerVars>>

\* AfterTrial that stores only the valid values in samples
AfterTrial_DropsNaN(f, value) ==
    LET pushed == IF IsNaN(value) THEN f ELSE [f EXCEPT !.result.samples = Append(@, value)]
        folded == Welford(pushed, value)
    IN  [Record(folded, f.i + 1) EXCEPT !.i = f.i + 1]

\* AfterTrial that checks the record point before the value is folded in
AfterTrial_RecordsFirst(f, value) ==
    LET pushed == [f EXCEPT !.result.samples = Append(@, value)]
        recorded == Record(pushed, f.i + 1)
    IN  [Welford(recorded, value) EXCEPT !.i = f.i + 1]

\* the locals after one trial that produced value
AfterTrial(f, value) ==
    LET pushed == [f EXCEPT !.result.samples = Append(@, value)]
        folded == Welford(pushed, value)
    IN  [Record(folded, f.i + 1) EXCEPT !.i = f.i + 1]

\* the locals are destroyed when the exception leaves evaluate; what identifies
\* the call (its arguments and starting state) is kept for reference
Unwound(f) ==
    [NoFrame EXCEPT !.expr = f.expr, !.convergenceInterval = f.convergenceInterval,
                    !.callNo = f.callNo, !.first = f.first,
                    !.startRng = f.startRng, !.startDist = f.startDist]

\* Trial of an evaluate that samples from copies and commits them only when
\* the trial succeeds: a lookup failure leaves rng_ and the distributions as
\* they were
Trial_RollsBack(e) ==
    /\ pc[e] = "loop"
    /\ frame[e].i < numSamples_[e]
    /\ LET s == SampleAll(variables_, rng_[e], dist_)
           v == Evaluate(frame[e].expr, s.samples)
       IN  IF v.throw
           THEN /\ pc' = [pc EXCEPT ![e] = "thrown"]
                /\ frame' = [frame EXCEPT ![e] = Unwound(frame[e])]
                /\ UNCHANGED <<rng_, dist_>>
           ELSE /\ pc' = pc
                /\ frame' = [frame EXCEPT ![e] = AfterTrial(frame[e], v.val)]
                /\ rng_' = [rng_ EXCEPT ![e] = s.rng]
                /\ dist_' = s.dist
    /\ UNCHANGED <<variables_, numSamples_, history, calls, evalIn, evalOut, regLog, callerVars>>

\* Trial of a loop that tests its condition after the body (do ... while):
\* the first iteration runs whatever numSamples_ is
Trial_AtLeastOnce(e) ==
    /\ pc[e] = "loop"
    /\ frame[e].i < numSamples_[e] \/ (frame[e].i = 0 /\ frame[e].result.samples = <<>>)
    /\ LET s == SampleAll(variables_, rng_[e], dist_)
           v == Evaluate(frame[e].expr, s.samples)
       IN  /\ rng_' = [rng_ EXCEPT ![e] = s.rng]
           /\ dist_' = s.dist
           /\ IF v.throw
              THEN /\ pc' = [pc EXCEPT ![e] = "thrown"]
                   /\ frame' = [frame EXCEPT ![e] = Unwound(frame[e])]
              ELSE /\ pc' = pc
                   /\ frame' = [frame EXCEPT ![e] = AfterTrial(frame[e], v.val)]
    /\ UNCHANGED <<variables_, numSamples_, history, calls, evalIn, evalOut, regLog, callerVars>>

\* one iteration of the sampling loop; a lookup failure unwinds evaluate
Trial(e) ==
    /\ pc[e] = "loop"
    /\ frame[e].i < numSamples_[e]
    /\ LET s == SampleAll(variables_, rng_[e], dist_)
           v == Evaluate(frame[e].expr, s.samples)
       IN  /\ rng_' = [rng_ EXCEPT ![e] = s.rng]
           /\ dist_' = s.dist
           /\ IF v.throw
              THEN /\ pc' = [pc EXCEPT ![e] = "thrown"]
                   /\ frame' = [frame EXCEPT ![e] = Unwound(frame[e])]
              ELSE /\ pc' = pc
                   /\ frame' = [frame EXCEPT ![e] = AfterTrial(frame[e], v.val)]
    /\ UNCHANGED <<variables_, numSamples_, history, calls, evalIn, evalOut, regLog, callerVars>>

\* what the caller holds once evaluate has returned, with the state the call
\* started from; first marks the first call after construction
CallRecord(e, f) ==
    [eval |-> e, numSamples |-> numSamples_[e], expr |-> f.expr,
     convergenceInterval |-> f.convergenceInterval, registry |-> variables_,
     callNo |-> f.callNo, first |-> f.first,
     startRng |-> f.startRng, startDist |-> f.startDist, endRng |-> rng_[e],
     result |-> FinalResult(f)]

LastTwo(h) == IF Len(h) > 2 THEN Tail(h) ELSE h

\* EvaluateReturn of an evaluate that sampled from a copy of rng_: the member
\* is back at the state the call started from
EvaluateReturn_RestoresRng(e) ==
    /\ pc[e] = "loop"
    /\ frame[e].i = numSamples_[e]
    /\ history' = LastTwo(Append(history, CallRecord(e, frame[e])))
    /\ frame' = [frame EXCEPT ![e] = NoFrame]
    /\ pc' = [pc EXCEPT ![e] = "done"]
    /\ rng_' = [rng_ EXCEPT ![e] = frame[e].startRng]
    /\ UNCHANGED <<variables_, dist_, numSamples_, calls, evalIn, evalOut, regLog, callerVars>>

\* evaluate after its loop: final statistics and return; the locals go away
EvaluateReturn(e) ==
    /\ pc[e] = "loop"
    /\ frame[e].i = numSamples_[e]
    /\ history' = LastTwo(Append(history, CallRecord(e, frame[e])))
    /\ frame' = [frame EXCEPT ![e] = NoFrame]
    /\ pc' = [pc EXCEPT ![e] = "done"]
    /\ UNCHANGED <<variables_, dist_, numSamples_, rng_, calls, evalIn, evalOut, regLog, callerVars>>

\* a caller evaluates a tree directly against a map of its own
ExprEvaluate ==
    /\ ~evalOut.done
    /\ evalIn.expr # 0
    /\ LET r == Evaluate(evalIn.expr, evalIn.variables)
       IN  evalOut' = [throw |-> r.throw, val |-> r.val, done |-> TRUE]
    /\ UNCHANGED <<variables_, dist_, evalVars, evalIn, regLog, callerVars>>

\* the activation record of one evaluate invocation on a thread's stack: the
\* node, where the invocation is ("enter", or waiting for its "left" or "right"
\* operand) and its local leftValue
Frame(e) == [node |-> e, at |-> "enter", leftValue |-> NaN]

Pop(stack) == SubSeq(stack, 1, Len(stack) - 1)

\* the innermost invocation returns v to its caller
Return(th, v) ==
    [th EXCEPT !.stack = Pop(th.stack), !.returned = TRUE, !.value = v,
               !.state = IF Len(th.stack) = 1 THEN "returned" ELSE "running"]

\* std::out_of_range leaves every invocation on the thread's stack
Unwind(th) == [th EXCEPT !.stack = <<>>, !.returned = FALSE, !.state = "thrown"]

\* StepOf where Variable::evaluate reads the map of thread 1, as if evaluate
\* kept its argument in a static
StepOf_FirstCallerSnapshot(th) ==
    LET top == th.stack[Len(th.stack)]
        node == Nodes[top.node]
        SetTop(f) == [th.stack EXCEPT ![Len(th.stack)] = f]
    IN  CASE top.at = "enter" /\ node.type = "Constant" -> Return(th, Dbl(node.value))
          [] top.at = "enter" /\ node.type = "Variable" ->
                LET r == VariableEvaluate(node.name, threads[1].variables)
                IN  IF r.throw THEN Unwind(th) ELSE Return(th, r.val)
          [] top.at = "enter" /\ node.type = "BinaryOp" ->
                [th EXCEPT !.stack = Append(SetTop([top EXCEPT !.at = "left"]),
                                            Frame(node.left))]
          [] top.at = "left" ->
                [th EXCEPT !.stack = Append(SetTop([top EXCEPT !.at = "right",
                                                               !.leftValue = th.value]),
                                            Frame(node.right)),
                           !.returned = FALSE]
          [] top.at = "right" -> Return(th, ApplyOp(node.op, top.leftValue, th.value))

\* one step of the innermost evaluate invocation of a thread: a leaf returns, a
\* BinaryOp calls its left operand, then its right operand, then applies op_
StepOf(th) ==
    LET top == th.stack[Len(th.stack)]
        node == Nodes[top.node]
        SetTop(f) == [th.stack EXCEPT ![Len(th.stack)] = f]
    IN  CASE top.at = "enter" /\ node.type = "Constant" -> Return(th, Dbl(node.value))
          [] top.at = "enter" /\ node.type = "Variable" ->
                LET r == VariableEvaluate(node.name, th.variables)
                IN  IF r.throw THEN Unwind(th) ELSE Return(th, r.val)
          [] top.at = "enter" /\ node.type = "BinaryOp" ->
                [th EXCEPT !.stack = Append(SetTop([top EXCEPT !.at = "left"]),
                                            Frame(node.left))]
          [] top.at = "left" ->
                [th EXCEPT !.stack = Append(SetTop([top EXCEPT !.at = "right",
                                                               !.leftValue = th.value]),
                                            Frame(node.right)),
                           !.returned = FALSE]
          [] top.at = "right" -> Return(th, ApplyOp(node.op, top.leftValue, th.value))

\* a thread calls Nodes[e].evaluate(variables) with a map of its own
EvaluateCall(t, e, variables) ==
    /\ threads[t].state = "none"
    /\ threads' = [threads EXCEPT ![t] =
                      [expr |-> e, variables |-> variables, passed |-> variables,
                       stack |-> <<Frame(e)>>, returned |-> FALSE, value |-> NaN,
                       state |-> "running"]]
    /\ UNCHANGED <<variables_, dist_, evalVars, evalIn, evalOut, regLog, gen, snapshots, draws>>

\* the scheduler runs thread t for one step
ThreadStep(t) ==
    /\ threads[t].state = "running"
    /\ threads' = [threads EXCEPT ![t] = StepOf(threads[t])]
    /\ UNCHANGED <<variables_, dist_, evalVars, evalIn, evalOut, regLog, gen, snapshots, draws>>

\* std::mt19937 rng(seed) in the caller: a generator in its seeded state
GenSeed(seed) ==
    /\ gen' = RngSeed(seed)
    /\ UNCHANGED <<variables_, dist_, evalVars, evalIn, evalOut, regLog, snapshots, draws, threads>>

\* a direct call registry.sampleAll(gen); the caller keeps what it passed and got
SampleAllCall ==
    /\ LET s == SampleAll(variables_, gen, dist_)
       IN  /\ gen' = s.rng
           /\ dist_' = s.dist
           /\ snapshots' = Append(snapshots,
                                  [registry |-> variables_, regLog |-> regLog,
                                   rng |-> gen, dist |-> dist_,
                                   samples |-> s.samples, endRng |-> s.rng])
    /\ UNCHANGED <<variables_, evalVars, evalIn, evalOut, regLog, draws, threads>>

\* a direct call Dists[d].sample(gen)
SampleCall(d) ==
    /\ LET s == Sample(d, gen, dist_[d])
       IN  /\ gen' = s.rng
           /\ dist_' = [dist_ EXCEPT ![d] = s.st]
           /\ draws' = Append(draws, [dist |-> d, rng |-> gen, val |-> s.val, endRng |-> s.rng])
    /\ UNCHANGED <<variables_, evalVars, evalIn, evalOut, regLog, snapshots, threads>>

\* no evaluate call is on the stack
Quiet == \A e \in Evals : pc[e] # "loop"

\* one evaluator, one evaluate call over a registry filled beforehand
Next ==
    \/ \E name \in Names \ DOMAIN variables_, d \in DistIds :
          calls = 0 /\ Quiet /\ RegisterVariable(name, d)
    \/ \E n \in 0 .. MaxN, seed \in Seeds \cup {-1}, rd \in Seeds : Construct(1, n, seed, rd)
    \/ \E expr \in Roots, k \in Intervals : calls = 0 /\ EvaluateBegin(1, expr, k)
    \/ Trial(1)
    \/ EvaluateReturn(1)

Spec == Init /\ [][Next]_vars

\* the expressions and modes of SpecRepeat
RepeatRoots == {2, 3, 5}
RepeatIntervals == {0, 1}

\* one thread, up to MaxCalls calls one after the other on two evaluators; by
\* symmetry evaluator 1 is constructed first, evaluator 2 after the first call
NextRepeat ==
    \/ \E d \in DistIds : calls = 0 /\ Quiet /\ regLog = <<>> /\ RegisterVariable("x", d)
    \/ \E e \in Evals, n \in 0 .. MaxRepeatN, seed \in Seeds :
          (e = 2 => calls > 0) /\ Quiet /\ Construct(e, n, seed, seed)
    \/ \E e \in Evals, expr \in RepeatRoots, k \in RepeatIntervals :
          Quiet /\ calls < MaxCalls /\ EvaluateBegin(e, expr, k)
    \/ \E e \in Evals : Trial(e)
    \/ \E e \in Evals : EvaluateReturn(e)

SpecRepeat == Init /\ [][NextRepeat]_vars

\* the expressions of SpecAbort: x, and z, which no registry holds
AbortRoots == {3, 5}

\* one evaluator, up to MaxCalls calls one after the other, some of which
\* abort with a lookup error
NextAbort ==
    \/ \E d \in DistIds : calls = 0 /\ regLog = <<>> /\ RegisterVariable("x", d)
    \/ \E n \in 0 .. MaxRepeatN, seed \in Seeds : Construct(1, n, seed, seed)
    \/ \E expr \in AbortRoots, k \in RepeatIntervals :
          Quiet /\ calls < MaxCalls /\ EvaluateBegin(1, expr, k)
    \/ Trial(1)
    \/ EvaluateReturn(1)

SpecAbort == Init /\ [][NextAbort]_vars

\* two evaluators, each with a generator of its own, run evaluate on the tree x
\* over one registry at the same time: their trials interleave in every order
NextInterleave ==
    \/ \E d \in DistIds : calls = 0 /\ regLog = <<>> /\ RegisterVariable("x", d)
    \/ \E e \in Evals, n \in 1 .. MaxRepeatN, seed \in Seeds :
          calls = 0 /\ Construct(e, n, seed, seed)
    \/ \E e \in Evals :
          /\ pc[e] = "idle" /\ \A o \in Evals : pc[o] # "none"
          /\ EvaluateBegin(e, 3, 0)
    \/ \E e \in Evals : Trial(e)
    \/ \E e \in Evals : EvaluateReturn(e)

SpecInterleave == Init /\ [][NextInterleave]_vars

\* the trial counts and modes of SpecPlan
PlanNs == (0 .. MaxPlanN) \cup {100, 101, 1000}
PlanIntervals == (-2 .. MaxStride) \cup {7, 200}

\* one evaluate call of a constant expression: only the checkpoints vary
NextPlan ==
    \/ \E n \in PlanNs : Construct(1, n, 0, 0)
    \/ \E k \in PlanIntervals : calls = 0 /\ EvaluateBegin(1, 2, k)
    \/ Trial(1)
    \/ EvaluateReturn(1)

SpecPlan == Init /\ [][NextPlan]_vars

\* a registry filled and refilled by up to MaxRegister registrations, sampled
\* directly up to MaxSampleAll times with a generator the caller may put back
\* into its seeded state
NextRegistry ==
    \/ \E name \in Names, d \in DistIds :
          Len(regLog) < MaxRegister /\ RegisterVariable(name, d)
    \/ GenSeed(0)
    \/ Len(snapshots) < MaxSampleAll /\ SampleAllCall

SpecRegistry == Init /\ [][NextRegistry]_vars

\* distribution objects sampled directly up to MaxDraws times
NextDist ==
    \/ \E seed \in Seeds : GenSeed(seed)
    \/ \E d \in DistIds : Len(draws) < MaxDraws /\ SampleCall(d)

SpecDist == Init /\ [][NextDist]_vars

\* the trees and maps of SpecThreads
ThreadRoots == {5, 7, 9, 10, 15}
ThreadVals == {NaN, Dbl(0), Dbl(2)}
ThreadSnapshots == UNION {[D -> ThreadVals] : D \in SUBSET Names}

\* threads that evaluate trees of the shared heap, each against its own map,
\* their steps interleaved in every order
NextThreads ==
    \/ \E t \in Threads, e \in ThreadRoots, variables \in ThreadSnapshots :
          EvaluateCall(t, e, variables)
    \/ \E t \in Threads : ThreadStep(t)

SpecThreads == Init /\ [][NextThreads]_vars

\* the maps a caller passes to Expression::evaluate directly
SnapNames == {"x", "y", "z"}
SnapVals == {NaN, Dbl(-1), Dbl(0), Dbl(2)}
Snapshots == UNION {[D -> SnapVals] : D \in SUBSET SnapNames}

InitExpr ==
    /\ variables_ = EmptyMap
    /\ dist_ = [d \in DistIds |-> FreshDist]
    /\ numSamples_ = [e \in Evals |-> 0]
    /\ rng_ = [e \in Evals |-> RngSeed(0)]
    /\ pc = [e \in Evals |-> "none"]
    /\ frame = [e \in Evals |-> NoFrame]
    /\ history = <<>>
    /\ calls = 0
    /\ evalIn \in [expr : 1 .. Len(Nodes), variables : Snapshots]
    /\ evalOut = NoOut
    /\ regLog = <<>>
    /\ gen = RngSeed(0)
    /\ snapshots = <<>>
    /\ draws = <<>>
    /\ threads = [t \in Threads |-> NoThread]

NextExpr == ExprEvaluate

SpecExpr == InitExpr /\ [][NextExpr]_vars

----------------------------------------------------------------------------
(* Reference computations over a returned result *)

RECURSIVE SumSeq(_)
SumSeq(vs) == IF vs = <<>> THEN Dbl(0) ELSE FAdd(Head(vs), SumSeq(Tail(vs)))

\* arithmetic mean of a non-empty sequence
MeanOf(vs) == FDiv(SumSeq(vs), Dbl(Len(vs)))

\* sum of squared deviations from m
SqDevSum(vs, m) == SumSeq([k \in 1 .. Len(vs) |-> FMul(FSub(vs[k], m), FSub(vs[k], m))])

\* unbiased sample standard deviation of a sequence of at least two values
SampleStdDev(vs) == FSqrt(FDiv(SqDevSum(vs, MeanOf(vs)), Dbl(Len(vs) - 1)))

RECURSIVE Replay(_, _, _, _, _)
\* the values of n successive trials of expr from the given generator and
\* distribution state (none of which throws)
Replay(n, reg, rng, ds, expr) ==
    IF n = 0 THEN <<>>
    ELSE LET s == SampleAll(reg, rng, ds)
         IN  <<Evaluate(expr, s.samples).val>> \o Replay(n - 1, reg, s.rng, s.dist, expr)

\* the sample counts of a convergence history
Counts(ch) == [j \in 1 .. Len(ch) |-> ch[j].sampleCount]

StrictlyIncreasing(q) == \A j \in 1 .. Len(q) - 1 : q[j] < q[j + 1]

\* the summary a caller compares: samples, mean, stddev, min, max
Summary(res) == <<res.samples, res.mean, res.stddev, res.min, res.max>>

HasReturned == history # <<>>
Last == history[Len(history)]

----------------------------------------------------------------------------
(* Claims *)

\* two returned calls made with the same expression and mode over the same registry
SameArgs(a, b) ==
    /\ a.expr = b.expr
    /\ a.convergenceInterval = b.convergenceInterval
    /\ a.registry = b.registry

\* the first calls of two evaluators constructed with the same (N, seed)
TwinFirstCalls(a, b) ==
    /\ a.eval # b.eval
    /\ a.first /\ b.first
    /\ a.numSamples = b.numSamples
    /\ a.startRng = b.startRng
    /\ SameArgs(a, b)

\* C1: two evaluators constructed with the same (N, seed), each calling evaluate
\* once on the same expression and the same registry object, return identical
\* samples, mean, stddev, min, max and convergence history.
C1_SameSeedSameResult ==
    Len(history) = 2 /\ TwinFirstCalls(history[1], history[2])
        => history[1].result = history[2].result

\* two successive calls on one evaluator with the same arguments
RepeatedCall ==
    /\ Len(history) = 2
    /\ history[1].eval = history[2].eval
    /\ history[2].callNo = history[1].callNo + 1
    /\ SameArgs(history[1], history[2])

ValidOf(rec) == ValidSamples(rec.result.samples)

\* C3: the returned mean is the arithmetic mean of exactly the non-NaN samples
\* and the returned stddev is the square root of their summed squared deviations
\* over (validCount - 1): Welford's update agrees with the two-pass computation.
C3_WelfordMatchesTwoPass ==
    HasReturned =>
        /\ Len(ValidOf(Last)) >= 1 => Last.result.mean = MeanOf(ValidOf(Last))
        /\ Len(ValidOf(Last)) > 1 => Last.result.stddev = SampleStdDev(ValidOf(Last))

\* a result over three or more valid, spread-out samples and a NaN
C3_Witness ==
    /\ HasReturned
    /\ Len(ValidOf(Last)) >= 3
    /\ Len(ValidOf(Last)) < Len(Last.result.samples)
    /\ Last.result.stddev # Dbl(0)

\* C4: a returned result has exactly N samples in trial order, NaN included,
\* totalSampleCount = N, validSampleCount = number of non-NaN samples <= N.
C4_SampleCounts ==
    HasReturned =>
        /\ Len(Last.result.samples) = Last.numSamples
        /\ Last.result.samples =
              Replay(Last.numSamples, Last.registry, Last.startRng, Last.startDist, Last.expr)
        /\ Last.result.totalSampleCount = Last.numSamples
        /\ Last.result.validSampleCount = Len(ValidOf(Last))
        /\ Last.result.validSampleCount <= Last.result.totalSampleCount

\* a result in which a NaN trial precedes a valid one
C4_Witness ==
    /\ HasReturned
    /\ \E j, k \in 1 .. Len(Last.result.samples) :
          j < k /\ IsNaN(Last.result.samples[j]) /\ ~IsNaN(Last.result.samples[k])

\* C5: x / 0 over a registered x returns normally with validSampleCount = 0,
\* totalSampleCount = N, mean, stddev, min, max NaN and every sample NaN.
C5_DivideByZeroAllNaN ==
    /\ ~(pc[1] = "thrown" /\ frame[1].expr = 6 /\ "x" \in DOMAIN variables_)
    /\ HasReturned /\ Last.expr = 6 =>
          /\ Last.result.validSampleCount = 0
          /\ Last.result.totalSampleCount = Last.numSamples
          /\ IsNaN(Last.result.mean) /\ IsNaN(Last.result.stddev)
          /\ IsNaN(Last.result.min) /\ IsNaN(Last.result.max)
          /\ \A k \in 1 .. Len(Last.result.samples) : IsNaN(Last.result.samples[k])

\* x / 0 evaluated for two or more trials over a registered x
C5_Witness ==
    /\ HasReturned /\ Last.expr = 6
    /\ "x" \in DOMAIN Last.registry
    /\ Len(Last.result.samples) >= 2

\* C6: a Variable node throws when its name is absent from the map and returns
\* the map's value for its name when present, whatever else the map holds.
C6_VariableLookup ==
    evalOut.done /\ Nodes[evalIn.expr].type = "Variable" =>
        IF Nodes[evalIn.expr].name \in DOMAIN evalIn.variables
        THEN ~evalOut.throw /\ evalOut.val = evalIn.variables[Nodes[evalIn.expr].name]
        ELSE evalOut.throw

\* a Variable evaluated against a non-empty map that lacks its name
C6_Witness ==
    /\ evalOut.done /\ evalOut.throw
    /\ Nodes[evalIn.expr].type = "Variable"
    /\ DOMAIN evalIn.variables # {}

\* the last point of a non-empty convergence history agrees with the result
FinalPointAgrees(rec) ==
    LET ch == rec.result.convergenceHistory IN
    /\ ch # <<>>
    /\ ch[Len(ch)].sampleCount = rec.numSamples
    /\ ch[Len(ch)].mean = rec.result.mean
    /\ ch[Len(ch)].stddev = rec.result.stddev
    /\ ch[Len(ch)].validCount = rec.result.validSampleCount

\* C7 as stated: for every N and every mode other than none the checkpoint counts
\* increase strictly and the final checkpoint has sampleCount N and the result's
\* mean, stddev and validCount.
C7_FinalCheckpointEveryN ==
    HasReturned /\ Last.convergenceInterval # 0 =>
        /\ StrictlyIncreasing(Counts(Last.result.convergenceHistory))
        /\ FinalPointAgrees(Last)

\* C7 amended: the same for every N >= 1 (with N = 0 no checkpoint is recorded).
C7_FinalCheckpoint ==
    HasReturned /\ Last.convergenceInterval # 0 /\ Last.numSamples >= 1 =>
        /\ StrictlyIncreasing(Counts(Last.result.convergenceHistory))
        /\ FinalPointAgrees(Last)

\* a tracked call with several checkpoints and a spread of valid samples
C7_Witness ==
    /\ HasReturned /\ Last.convergenceInterval # 0
    /\ Len(Last.result.convergenceHistory) >= 2
    /\ Last.result.validSampleCount >= 2
    /\ Last.result.stddev # Dbl(0)

\* q lists exactly the members of S, in ascending order
ListsAscending(q, S) ==
    /\ StrictlyIncreasing(q)
    /\ {q[j] : j \in 1 .. Len(q)} = S

\* the multiples of k up to n, and n itself when it is not one of them
StrideCounts(k, n) ==
    {m \in 1 .. n : m % k = 0} \cup (IF n % k # 0 THEN {n} ELSE {})

\* C8 as stated: with stride k > 0 the recorded counts are k, 2k, .. <= N, then N
\* when N is no multiple of k; N = 1000, k = 200 gives 200, 400, 600, 800, 1000
\* and k > N gives the single checkpoint N.
C8_FixedStrideEveryN ==
    HasReturned /\ Last.convergenceInterval > 0 =>
        LET q == Counts(Last.result.convergenceHistory) IN
        /\ ListsAscending(q, StrideCounts(Last.convergenceInterval, Last.numSamples))
        /\ Last.numSamples = 1000 /\ Last.convergenceInterval = 200
              => q = <<200, 400, 600, 800, 1000>>
        /\ Last.convergenceInterval > Last.numSamples => q = <<Last.numSamples>>

\* C8 amended: the same, k > N giving the single checkpoint N when N >= 1 (and
\* no checkpoint when N = 0).
C8_FixedStride ==
    HasReturned /\ Last.convergenceInterval > 0 =>
        LET q == Counts(Last.result.convergenceHistory) IN
        /\ ListsAscending(q, StrideCounts(Last.convergenceInterval, Last.numSamples))
        /\ Last.numSamples = 1000 /\ Last.convergenceInterval = 200
              => q = <<200, 400, 600, 800, 1000>>
        /\ Last.convergenceInterval > Last.numSamples /\ Last.numSamples >= 1
              => q = <<Last.numSamples>>
        /\ Last.numSamples = 0 => q = <<>>

\* a stride that does not divide N, with several checkpoints
C8_Witness ==
    /\ HasReturned /\ Last.convergenceInterval > 1
    /\ Last.numSamples % Last.convergenceInterval # 0
    /\ Len(Last.result.convergenceHistory) >= 3

\* powers of ten below n, non-zero floor(p * n) for the nine fractions, and n
SmartCounts(n) ==
    {p \in {10, 100, 1000, 10000} : p < n}
    \cup {c \in 1 .. n : \E q \in {1, 5, 10, 25, 50, 75, 90, 95, 100} : c = (q * n) \div 100}
    \cup {n}

\* C9 as stated: with any negative convergenceInterval the recorded counts are
\* the ascending, duplicate-free set of the powers of ten below N, the non-zero
\* floor(p * N) and N itself.
C9_SmartCountsEveryN ==
    HasReturned /\ Last.convergenceInterval < 0 =>
        ListsAscending(Counts(Last.result.convergenceHistory), SmartCounts(Last.numSamples))

\* C9 amended: the same for every N >= 1; with N = 0 nothing is recorded.
C9_SmartCounts ==
    HasReturned /\ Last.convergenceInterval < 0 =>
        IF Last.numSamples >= 1
        THEN ListsAscending(Counts(Last.result.convergenceHistory), SmartCounts(Last.numSamples))
        ELSE Last.result.convergenceHistory = <<>>

\* smart mode with a magnitude other than 1 and a power of ten among the counts
C9_Witness ==
    /\ HasReturned /\ Last.convergenceInterval < -1
    /\ Last.numSamples > 10
    /\ \E j \in 1 .. Len(Last.result.convergenceHistory) :
          Last.result.convergenceHistory[j].sampleCount = 10

\* C10: with convergenceInterval == 0 the convergence history is empty for every
\* N while samples and summary statistics are populated.
C10_NoTracking ==
    HasReturned /\ Last.convergenceInterval = 0 =>
        /\ Last.result.convergenceHistory = <<>>
        /\ Len(Last.result.samples) = Last.numSamples
        /\ Last.result.totalSampleCount = Last.numSamples
        /\ Last.result.validSampleCount = Len(ValidOf(Last))
        /\ IsNaN(Last.result.mean) <=> Last.result.validSampleCount = 0
        /\ IsNaN(Last.result.stddev) <=> Last.result.validSampleCount = 0
        /\ IsNaN(Last.result.min) <=> Last.result.validSampleCount = 0
        /\ IsNaN(Last.result.max) <=> Last.result.validSampleCount = 0

\* an untracked call that ran trials and produced valid samples
C10_Witness ==
    /\ HasReturned /\ Last.convergenceInterval = 0
    /\ Last.numSamples >= 2
    /\ Last.result.validSampleCount >= 1

\* what a direct evaluate call gave its caller, as Evaluate reports it
Ret2(out) == [throw |-> out.throw, val |-> out.val]

\* the operands a Divide node hands to its switch, when both evaluate
IsDivide(e) == Nodes[e].type = "BinaryOp" /\ Nodes[e].op = "Divide"
LeftOf(e, variables) == Evaluate(Nodes[e].left, variables)
RightOf(e, variables) == Evaluate(Nodes[e].right, variables)
IsZero(v) == ~v.nan /\ v.n = 0

\* C11: a Divide node whose right operand evaluates to exactly 0 returns NaN as
\* an ordinary value and raises no error, whatever the left operand is (0 and
\* NaN included); with a non-zero right operand it returns left / right.
C11_DivideByZeroIsNaN ==
    (/\ evalOut.done /\ IsDivide(evalIn.expr)
     /\ ~LeftOf(evalIn.expr, evalIn.variables).throw
     /\ ~RightOf(evalIn.expr, evalIn.variables).throw) =>
        LET l == LeftOf(evalIn.expr, evalIn.variables).val
            r == RightOf(evalIn.expr, evalIn.variables).val
        IN  /\ ~evalOut.throw
            /\ IF IsZero(r) THEN IsNaN(evalOut.val)
               ELSE evalOut.val = FDiv(l, r)

\* x / y evaluated with y == 0 and x NaN or 0
C11_Witness ==
    /\ evalOut.done /\ evalIn.expr = 7
    /\ DOMAIN evalIn.variables = {"x", "y"}
    /\ IsZero(evalIn.variables["y"])
    /\ IsNaN(evalIn.variables["x"])
    /\ ~evalOut.throw /\ IsNaN(evalOut.val)

RECURSIVE HitsZeroDivisor(_, _)
\* during the evaluation of e some Divide node's right operand is evaluated and
\* is exactly 0 (the right operand is evaluated only once the left has returned)
HitsZeroDivisor(e, variables) ==
    IF Nodes[e].type # "BinaryOp" THEN FALSE
    ELSE \/ HitsZeroDivisor(Nodes[e].left, variables)
         \/ /\ ~LeftOf(e, variables).throw
            /\ \/ HitsZeroDivisor(Nodes[e].right, variables)
               \/ /\ Nodes[e].op = "Divide"
                  /\ ~RightOf(e, variables).throw
                  /\ IsZero(RightOf(e, variables).val)

\* evaluator 1 is about to run a trial; the snapshot that trial will draw
TrialPending == pc[1] = "loop" /\ frame[1].i < numSamples_[1]
PendingSnapshot == SampleAll(variables_, rng_[1], dist_).samples

\* the step kept the trial as a NaN sample and left the running statistics alone
KeptAsNaN ==
    /\ pc'[1] = "loop"
    /\ frame'[1].result.samples = Append(frame[1].result.samples, NaN)
    /\ frame'[1].validCount = frame[1].validCount
    /\ frame'[1].runningMean = frame[1].runningMean
    /\ frame'[1].runningM2 = frame[1].runningM2

\* C12 as stated: a trial in which some Divide node's right operand evaluates
\* to 0 always yields NaN at the root and is kept as a NaN sample.
C12_ZeroDivisorAlwaysNaN ==
    [][(TrialPending /\ HitsZeroDivisor(frame[1].expr, PendingSnapshot)) => KeptAsNaN]_vars

\* C12: if during a trial some Divide node's right operand evaluates to 0 and
\* the evaluation of the tree returns (no variable of the tree is absent from
\* the snapshot), the tree evaluates to NaN whatever operators lie above that
\* node, and the trial is kept in samples but changes neither validCount, the
\* running mean nor M2.
C12_NaNReachesRoot ==
    [][(/\ TrialPending
        /\ HitsZeroDivisor(frame[1].expr, PendingSnapshot)
        /\ ~Evaluate(frame[1].expr, PendingSnapshot).throw) => KeptAsNaN]_vars

\* a NaN trial of (x / y) * 0 kept after a valid trial, the statistics still
\* those of the valid trial
C12_Witness ==
    /\ pc[1] = "loop" /\ frame[1].expr = 14
    /\ frame[1].validCount = 1
    /\ Len(frame[1].result.samples) = 2
    /\ ~IsNaN(frame[1].result.samples[1])
    /\ IsNaN(frame[1].result.samples[2])

\* C13: when validSampleCount >= 1, min and max are the smallest and largest of
\* exactly the non-NaN samples: both occur in samples, no non-NaN sample lies
\* outside [min, max], and NaN entries do not influence them.
C13_MinMaxOverValid ==
    HasReturned /\ Last.result.validSampleCount >= 1 =>
        LET samples == Last.result.samples
            valid == {k \in 1 .. Len(samples) : ~IsNaN(samples[k])}
        IN  /\ \E k \in valid : samples[k] = Last.result.min
            /\ \E k \in valid : samples[k] = Last.result.max
            /\ \A k \in valid : /\ ~FLess(samples[k], Last.result.min)
                                /\ ~FLess(Last.result.max, samples[k])

\* NaN samples among several distinct valid ones, the first not the smallest
C13_Witness ==
    /\ HasReturned /\ Last.result.validSampleCount >= 2
    /\ \E k \in 1 .. Len(Last.result.samples) : IsNaN(Last.result.samples[k])
    /\ FLess(Last.result.min, Last.result.max)
    /\ FLess(Last.result.min, ValidOf(Last)[1])

\* C14: with no valid trial evaluate returns mean, stddev, min and max NaN and
\* validSampleCount = 0; with exactly one valid trial of value v it returns
\* mean = min = max = v and stddev = 0.
C14_DegenerateCounts ==
    HasReturned =>
        /\ Len(ValidOf(Last)) = 0 =>
              /\ Last.result.validSampleCount = 0
              /\ IsNaN(Last.result.mean) /\ IsNaN(Last.result.stddev)
              /\ IsNaN(Last.result.min) /\ IsNaN(Last.result.max)
        /\ Len(ValidOf(Last)) = 1 =>
              /\ Last.result.mean = ValidOf(Last)[1]
              /\ Last.result.min = ValidOf(Last)[1]
              /\ Last.result.max = ValidOf(Last)[1]
              /\ Last.result.stddev = Dbl(0)

\* exactly one valid trial among several, its value not 0
C14_Witness ==
    /\ HasReturned /\ Len(Last.result.samples) >= 3
    /\ Len(ValidOf(Last)) = 1
    /\ ValidOf(Last)[1] # Dbl(0)
    /\ IsNaN(Last.result.samples[1])

FLessEq(a, b) == ~a.nan /\ ~b.nan /\ ~FLess(b, a)

LoggedNames(log) == {log[k].name : k \in 1 .. Len(log)}
LatestFor(log, n) ==
    log[CHOOSE k \in 1 .. Len(log) :
            log[k].name = n /\ \A j \in (k + 1) .. Len(log) : log[j].name # n].dist

\* what a sampleAll call returns when "x" and then "y" are each drawn once from
\* the distribution registered last under that name
LatestDraws(c) ==
    LET names == LoggedNames(c.regLog)
        dx == LatestFor(c.regLog, "x")
        sx == Sample(dx, c.rng, c.dist[dx])
        rngY == IF "x" \in names THEN sx.rng ELSE c.rng
        distY == IF "x" \in names THEN [c.dist EXCEPT ![dx] = sx.st] ELSE c.dist
        dy == LatestFor(c.regLog, "y")
        sy == Sample(dy, rngY, distY[dy])
    IN  [n \in names |-> IF n = "x" THEN sx.val ELSE sy.val]

\* the registry agrees with the registrations made so far
RegistryMatchesLog ==
    /\ getVariableCount = Cardinality(LoggedNames(regLog))
    /\ \A n \in Names \cup {"z"} : hasVariable(n) <=> n \in LoggedNames(regLog)
    /\ \A n \in LoggedNames(regLog) : variables_[n] = LatestFor(regLog, n)
    /\ \A k \in 1 .. Len(snapshots) : snapshots[k].samples = LatestDraws(snapshots[k])

\* C17: registerVariable is insert-or-replace: after any sequence of calls
\* getVariableCount is the number of distinct names registered, hasVariable(n)
\* is true exactly for those names and never becomes false again, each name
\* maps to the distribution of its most recent registration, and sampleAll
\* draws each name from that distribution.
C17_InsertOrReplace ==
    /\ RegistryMatchesLog
    /\ \A k \in 1 .. Len(snapshots) :
          \A n \in DOMAIN snapshots[k].registry : hasVariable(n)

\* "x" registered, replaced by another distribution, then sampled beside "y"
C17_Witness ==
    /\ Len(regLog) = 3
    /\ \E j, k \in 1 .. 3 : /\ j < k /\ regLog[j].name = "x" /\ regLog[k].name = "x"
                            /\ regLog[j].dist # regLog[k].dist
    /\ "y" \in LoggedNames(regLog)
    /\ snapshots # <<>>
    /\ snapshots[Len(snapshots)].regLog = regLog
    /\ getVariableCount = 2

\* C18: sampleAll returns a snapshot whose keys are exactly the registered
\* names and leaves the mapping unchanged; the snapshot is drawn in ascending
\* name order through the generator passed in, so that calls over the same
\* name-to-distribution mapping (however it was registered) from the same
\* generator state return the same snapshot.
C18_SampleAllByNameOrder ==
    /\ \A k \in 1 .. Len(snapshots) :
          DOMAIN snapshots[k].samples = DOMAIN snapshots[k].registry
    /\ snapshots # <<>> /\ snapshots[Len(snapshots)].regLog = regLog =>
          variables_ = snapshots[Len(snapshots)].registry
    /\ \A j, k \in 1 .. Len(snapshots) :
          (/\ snapshots[j].registry = snapshots[k].registry
           /\ snapshots[j].rng = snapshots[k].rng) =>
              snapshots[j].samples = snapshots[k].samples

\* C19: Distribution::sample is a function of the distribution's parameters
\* and the generator state passed in: two sample calls on the same distribution
\* object with equal generator states return equal values, however often the
\* object was sampled before.
C19_SampleIsPure ==
    \A j, k \in 1 .. Len(draws) :
        (draws[j].dist = draws[k].dist /\ draws[j].rng = draws[k].rng) =>
            draws[j].val = draws[k].val

\* C20: Expression::evaluate leaves the snapshot as passed and its result
\* depends only on the tree and the snapshot: under every interleaving of the
\* evaluations of independent threads, each with its own snapshot, every thread
\* gets the value (or the lookup error) of an isolated sequential evaluation.
C20_ConcurrentEvaluate ==
    \A t \in Threads :
        /\ threads[t].variables = threads[t].passed
        /\ threads[t].state = "returned" =>
              /\ ~Evaluate(threads[t].expr, threads[t].passed).throw
              /\ threads[t].value = Evaluate(threads[t].expr, threads[t].passed).val
        /\ threads[t].state = "thrown" =>
              Evaluate(threads[t].expr, threads[t].passed).throw

\* two threads evaluated (x / y) * 2 against different maps; one got NaN from
\* a zero divisor, the other a number
C20_Witness ==
    /\ threads[1].state = "returned" /\ threads[2].state = "returned"
    /\ threads[1].expr = 9 /\ threads[2].expr = 9
    /\ threads[1].passed # threads[2].passed
    /\ IsNaN(threads[1].value) /\ ~IsNaN(threads[2].value)
    /\ IsZero(threads[1].passed["y"])

\* C21: two evaluators with generators of their own that run evaluate with
\* their trials interleaved over the same tree, registry and distribution
\* objects each return the samples they would return running alone from the
\* state their call started in.
C21_InterleavedAsAlone ==
    \A k \in 1 .. Len(history) :
        history[k].result.samples =
            Replay(history[k].numSamples, history[k].registry,
                   history[k].startRng, history[k].startDist, history[k].expr)

RECURSIVE SameShape(_, _)
\* two trees are structurally equal: same node types, values, names and
\* operators in the same positions, whichever objects hold them
SameShape(a, b) ==
    /\ Nodes[a].type = Nodes[b].type
    /\ CASE Nodes[a].type = "Constant" -> Nodes[a].value = Nodes[b].value
         [] Nodes[a].type = "Variable" -> Nodes[a].name = Nodes[b].name
         [] Nodes[a].type = "BinaryOp" ->
               /\ Nodes[a].op = Nodes[b].op
               /\ SameShape(Nodes[a].left, Nodes[b].left)
               /\ SameShape(Nodes[a].right, Nodes[b].right)

\* C22: two separately built trees of the same shape evaluate to identical
\* results against identical snapshots, and a tree that holds one sub-node
\* object in several positions evaluates like the tree in which every
\* occurrence is a separate structurally equal copy.
C22_SameShapeSameResult ==
    evalOut.done =>
        \A b \in 1 .. Len(Nodes) :
            SameShape(evalIn.expr, b) =>
                Evaluate(b, evalIn.variables) = Ret2(evalOut)

\* x / x held as one object, evaluated with x == 0, beside its two-object copy
C22_Witness ==
    /\ evalOut.done /\ evalIn.expr = 21
    /\ SameShape(21, 22)
    /\ "x" \in DOMAIN evalIn.variables /\ IsZero(evalIn.variables["x"])
    /\ IsNaN(evalOut.val) /\ ~evalOut.throw

\* the non-NaN values among the first c samples of a returned call
ValidUpTo(rec, c) == ValidSamples(SubSeq(rec.result.samples, 1, c))

\* C23: each recorded ConvergencePoint with sampleCount c holds the statistics
\* of exactly the first c trials: validCount is the number of non-NaN values
\* among samples 1..c, mean is their arithmetic mean (NaN when there is none),
\* stddev their unbiased sample standard deviation when validCount > 1, 0 when
\* validCount = 1 and NaN when validCount = 0.
C23_PointOfFirstTrials ==
    HasReturned =>
        \A j \in 1 .. Len(Last.result.convergenceHistory) :
            LET p == Last.result.convergenceHistory[j]
                vs == ValidUpTo(Last, p.sampleCount)
            IN  /\ p.sampleCount <= Len(Last.result.samples)
                /\ p.validCount = Len(vs)
                /\ p.mean = IF Len(vs) = 0 THEN NaN ELSE MeanOf(vs)
                /\ p.stddev = IF Len(vs) = 0 THEN NaN
                              ELSE IF Len(vs) = 1 THEN Dbl(0)
                              ELSE SampleStdDev(vs)

\* a history with a point without valid trials, a later point with one valid
\* trial and a last point whose deviation is not 0
C23_Witness ==
    /\ HasReturned /\ Len(Last.result.convergenceHistory) >= 3
    /\ Last.result.convergenceHistory[1].validCount = 0
    /\ \E j \in 1 .. Len(Last.result.convergenceHistory) :
          Last.result.convergenceHistory[j].validCount = 1
    /\ LET p == Last.result.convergenceHistory[Len(Last.result.convergenceHistory)]
       IN  p.validCount >= 2 /\ p.stddev # Dbl(0)

RECURSIVE MentionsAbsent(_, _)
\* some Variable node anywhere in the tree names a variable outside names
MentionsAbsent(e, names) ==
    CASE Nodes[e].type = "Constant" -> FALSE
      [] Nodes[e].type = "Variable" -> Nodes[e].name \notin names
      [] Nodes[e].type = "BinaryOp" ->
            MentionsAbsent(Nodes[e].left, names) \/ MentionsAbsent(Nodes[e].right, names)

\* C24: evaluating a tree fails with the lookup error exactly when some
\* Variable anywhere in it names a variable absent from the snapshot, also
\* under a Divide whose divisor is 0 or beside a NaN operand; inside
\* MonteCarloEvaluator::evaluate with N >= 1 the error leaves evaluate from the
\* first trial (one snapshot drawn) and no result is returned.
C24_LookupFailureNotMasked ==
    /\ pc[1] = "thrown" =>
          /\ MentionsAbsent(frame[1].expr, DOMAIN variables_)
          /\ numSamples_[1] >= 1
          /\ history = <<>>
          /\ rng_[1] = SampleAll(variables_, frame[1].startRng, frame[1].startDist).rng
    /\ (pc[1] = "loop" /\ frame[1].i >= 1) =>
          ~MentionsAbsent(frame[1].expr, DOMAIN variables_)
    /\ (HasReturned /\ Last.numSamples >= 1) =>
          ~MentionsAbsent(Last.expr, DOMAIN Last.registry)

\* z / 0 with z unregistered, x and y registered: the first trial threw after
\* drawing its snapshot
C24_Witness ==
    /\ pc[1] = "thrown" /\ frame[1].expr = 27
    /\ DOMAIN variables_ = {"x", "y"}
    /\ numSamples_[1] >= 2
    /\ rng_[1] # frame[1].startRng

\* C25: BinaryOp applies its operator to (left, right) in that order: Add gives
\* left + right, Subtract left - right, Multiply left * right, Divide with a
\* non-zero right left / right; Constant(v) returns v for every snapshot, the
\* empty one included; a nested tree is the recursive application of these
\* rules (every subtree of the heap is checked as a tree of its own).
C25_OperatorOrder ==
    evalOut.done =>
        LET node == Nodes[evalIn.expr] IN
        /\ node.type = "Constant" => ~evalOut.throw /\ evalOut.val = Dbl(node.value)
        /\ (/\ node.type = "BinaryOp"
            /\ ~LeftOf(evalIn.expr, evalIn.variables).throw
            /\ ~RightOf(evalIn.expr, evalIn.variables).throw) =>
              LET l == LeftOf(evalIn.expr, evalIn.variables).val
                  r == RightOf(evalIn.expr, evalIn.variables).val
              IN  /\ ~evalOut.throw
                  /\ node.op = "Add" => evalOut.val = FAdd(l, r)
                  /\ node.op = "Subtract" => evalOut.val = FSub(l, r)
                  /\ node.op = "Multiply" => evalOut.val = FMul(l, r)
                  /\ (node.op = "Divide" /\ ~IsZero(r)) => evalOut.val = FDiv(l, r)

\* 2 - (x / y) with x == 2 and y == -1 is 4
C25_Witness ==
    /\ evalOut.done /\ evalIn.expr = 12
    /\ DOMAIN evalIn.variables = {"x", "y"}
    /\ evalIn.variables["x"] = Dbl(2) /\ evalIn.variables["y"] = Dbl(-1)
    /\ evalOut.val = Dbl(4)

\* C26: in every returned convergenceHistory each point has
\* 1 <= sampleCount <= N and validCount <= sampleCount, and validCount does not
\* decrease along the history.
C26_HistoryBounds ==
    HasReturned =>
        LET ch == Last.result.convergenceHistory IN
        /\ \A j \in 1 .. Len(ch) :
              /\ 1 <= ch[j].sampleCount /\ ch[j].sampleCount <= Last.numSamples
              /\ 0 <= ch[j].validCount /\ ch[j].validCount <= ch[j].sampleCount
        /\ \A j \in 1 .. Len(ch) - 1 : ch[j].validCount <= ch[j + 1].validCount

\* a history where validCount stays behind sampleCount, stands still once and
\* grows once
C26_Witness ==
    /\ HasReturned
    /\ LET ch == Last.result.convergenceHistory IN
       /\ Len(ch) >= 3
       /\ \E j \in 1 .. Len(ch) - 1 : ch[j].validCount = ch[j + 1].validCount
       /\ \E j \in 1 .. Len(ch) - 1 : ch[j].validCount < ch[j + 1].validCount
       /\ ch[Len(ch)].validCount < ch[Len(ch)].sampleCount

RECURSIVE RunFrom(_, _, _, _, _)
\* the sampling loop run to its end from locals f over registry reg, generator
\* rng and distribution state ds (no trial throws): the locals and generator
\* the loop ends with
RunFrom(f, n, reg, rng, ds) ==
    IF f.i >= n THEN [f |-> f, rng |-> rng]
    ELSE LET s == SampleAll(reg, rng, ds)
         IN  RunFrom(AfterTrial(f, Evaluate(f.expr, s.samples).val), n, reg, s.rng, s.dist)

\* the call of record rec made again with convergenceInterval == 0 from the
\* generator and distribution state rec started in
Untracked(rec) ==
    RunFrom([NoFrame EXCEPT !.expr = rec.expr, !.result = NewResult(rec.numSamples)],
            rec.numSamples, rec.registry, rec.startRng, rec.startDist)

\* C27: the convergence mode affects only convergenceHistory: from the same
\* generator and distribution state, evaluate with a positive stride or with
\* smart intervals returns the samples, mean, stddev, min, max,
\* validSampleCount and totalSampleCount of the call without tracking and
\* leaves the generator in the same final state.
C27_ModeOnlyInHistory ==
    HasReturned =>
        LET ref == Untracked(Last)
            res == FinalResult(ref.f)
        IN  /\ Summary(Last.result) = Summary(res)
            /\ Last.result.validSampleCount = res.validSampleCount
            /\ Last.result.totalSampleCount = res.totalSampleCount
            /\ Last.endRng = ref.rng
            /\ res.convergenceHistory = <<>>

\* a tracked call with several checkpoints, NaN trials and a deviation
C27_Witness ==
    /\ HasReturned /\ Last.convergenceInterval # 0
    /\ Len(Last.result.convergenceHistory) >= 2
    /\ Last.result.validSampleCount >= 2
    /\ Last.result.validSampleCount < Last.result.totalSampleCount
    /\ Last.result.stddev # Dbl(0)
    /\ Last.endRng # Last.startRng

\* the planned checkpoints that are at most i
PlannedUpTo(q, i) == SelectSeq(q, LAMBDA c : c <= i)

\* C28: for N >= 1 and any tracking mode the planned checkpoint list is
\* strictly increasing with every entry in [1, N]; after i trials of the loop
\* the cursor has passed exactly the planned entries that are at most i and
\* convergenceHistory holds exactly those, each once and in order, so when the
\* loop ends (i = N) the cursor equals the list length and the history has as
\* many points as the plan.
C28_EveryCheckpointOnce ==
    (pc[1] = "loop" /\ numSamples_[1] >= 1) =>
        LET f == frame[1]
            q == f.recordPoints
            done == PlannedUpTo(q, f.i)
        IN  /\ StrictlyIncreasing(q)
            /\ \A j \in 1 .. Len(q) : 1 <= q[j] /\ q[j] <= numSamples_[1]
            /\ f.nextRecordIndex = Len(done)
            /\ Counts(f.result.convergenceHistory) = done
            /\ f.i = numSamples_[1] =>
                  /\ f.nextRecordIndex = Len(q)
                  /\ Len(f.result.convergenceHistory) = Len(q)

\* a smart-interval loop that has ended with a power of ten, percentage counts
\* and N itself recorded
C28_Witness ==
    /\ pc[1] = "loop" /\ numSamples_[1] > 10
    /\ frame[1].convergenceInterval < 0
    /\ frame[1].i = numSamples_[1]
    /\ frame[1].nextRecordIndex >= 4
    /\ \E j \in 1 .. Len(frame[1].recordPoints) : frame[1].recordPoints[j] = 10

\* what a call with numSamples_ = 0 does and returns: it never throws, its
\* loop leaves generator and distributions where they were, and the result is
\* empty with NaN statistics
ZeroTrialsOutcome ==
    /\ numSamples_[1] = 0 => pc[1] # "thrown"
    /\ (pc[1] = "loop" /\ numSamples_[1] = 0) =>
          /\ frame[1].i = 0
          /\ rng_[1] = frame[1].startRng
          /\ dist_ = frame[1].startDist
          /\ frame[1].result.samples = <<>>
          /\ frame[1].result.convergenceHistory = <<>>
    /\ (HasReturned /\ Last.numSamples = 0) =>
          /\ Last.result.samples = <<>>
          /\ Last.result.validSampleCount = 0
          /\ Last.result.totalSampleCount = 0
          /\ IsNaN(Last.result.mean) /\ IsNaN(Last.result.stddev)
          /\ IsNaN(Last.result.min) /\ IsNaN(Last.result.max)
          /\ Last.result.convergenceHistory = <<>>
          /\ Last.endRng = Last.startRng

\* C29 as stated: with N = 0, in every convergence mode, evaluate returns
\* normally even for an unregistered variable, with empty samples, zero
\* counts, NaN statistics, an empty convergenceHistory and the generator not
\* advanced, while the planned checkpoint list contains the entry 0.
C29_ZeroPlannedInEveryMode ==
    /\ ZeroTrialsOutcome
    /\ (pc[1] = "loop" /\ numSamples_[1] = 0) =>
          \E j \in 1 .. Len(frame[1].recordPoints) : frame[1].recordPoints[j] = 0

\* C29 amended: with N = 0, in every convergence mode, evaluate returns
\* normally even for an unregistered variable, with empty samples, zero
\* counts, NaN statistics, an empty convergenceHistory and the generator not
\* advanced; the planned checkpoint list is exactly <<0>> in the two tracking
\* modes (fixed stride, smart) and empty without tracking.
C29_ZeroTrials ==
    /\ ZeroTrialsOutcome
    /\ (pc[1] = "loop" /\ numSamples_[1] = 0) =>
          frame[1].recordPoints =
              IF frame[1].convergenceInterval = 0 THEN <<>> ELSE <<0>>

\* a returned call with N = 0 in a tracking mode on an expression that names
\* an unregistered variable, after a seeded construction
C29_Witness ==
    /\ HasReturned /\ Last.numSamples = 0
    /\ Last.convergenceInterval # 0
    /\ MentionsAbsent(Last.expr, DOMAIN Last.registry)
    /\ Last.result.convergenceHistory = <<>>
    /\ RecordPoints(Last.convergenceInterval, Last.numSamples) = <<0>>

\* C30: a failed evaluate is not state-neutral. The step in which evaluate
\* aborts with a lookup error is its first trial: exactly one registry snapshot
\* has been drawn from the state the call started in, and the generator and
\* the distributions keep that snapshot's advance. Nothing rolls the generator
\* back afterwards, and the next evaluate on the same evaluator starts from
\* the advanced generator.
C30_FailedCallKeepsDraws ==
    [][\A e \in Evals :
          /\ (pc[e] = "loop" /\ pc'[e] = "thrown") =>
                LET s == SampleAll(variables_, frame[e].startRng, frame[e].startDist)
                IN  /\ numSamples_[e] >= 1
                    /\ frame[e].i = 0
                    /\ rng_[e] = frame[e].startRng /\ dist_ = frame[e].startDist
                    /\ rng_'[e] = s.rng /\ dist_' = s.dist
          /\ pc[e] = "thrown" =>
                /\ rng_'[e] = rng_[e]
                /\ pc'[e] = "loop" => frame'[e].startRng = rng_[e]
    ]_vars

\* the second call returned successfully on the evaluator whose first call
\* aborted (its record is the only one), having started from a generator that
\* is no longer in its seeded state
C30_Witness ==
    /\ HasReturned /\ Len(history) = 1
    /\ Last.callNo = 2 /\ ~Last.first
    /\ Last.numSamples >= 1
    /\ Last.startRng # RngSeed(Last.startRng.seed)
    /\ Last.result.samples # <<>>

====
